---- MODULE Spec2Model ----
(***************************************************************************)
(* Model of src/monitor.py (server-monitor): collection of the host        *)
(* metrics, threshold evaluation, report formatting and the conditional    *)
(* delivery of the report.                                                 *)
(*                                                                         *)
(* Text is a sequence of one-character strings.  A percentage is an        *)
(* integer number of 1/Scale percent, so that "4.5" is 4.5 * Scale.        *)
(* An optional value (Python's None or a missing dict key) is a set with   *)
(* at most one element: {} is None / missing.                              *)
(***************************************************************************)
EXTENDS Integers, Sequences, FiniteSets, TLC

VARIABLES
    pc,         \* position of the run of main()
    exc,        \* the exception that left main(), {} when none
    config,     \* load_config()'s result: [thresholds |-> metric -> number]
    status,     \* the snapshot built by get_all_status(), field by field
    alerts,     \* check_alerts()'s result
    message,    \* format_message()'s result, {} before
    printed,    \* what main() printed, in order
    app_id,     \* optional application id
    app_secret, \* optional secret
    minute,     \* datetime.now().minute read at line 227, {} before
    calls,      \* the HTTP calls made, in order
    token,      \* get_tenant_access_token()'s result (optional)
    numIn,      \* the text handed to the numeric-validity checks
    numRes,     \* the checks' verdicts on numIn
    evIn,       \* a snapshot and a configuration handed to the evaluator
    evRes       \* check_alerts / format_message applied to evIn

vars == <<pc, exc, config, status, alerts, message, printed, app_id, app_secret,
          minute, calls, token, numIn, numRes, evIn, evRes>>

mainVars == <<pc, exc, config, status, alerts, message, printed, app_id,
              app_secret, minute, calls, token>>

(***************************************************************************)
(* Bounds                                                                  *)
(***************************************************************************)
\* longest text the numeric-validity checks are tried on
MaxLen == 3

\* one percent, in the unit percentages are counted in: every text of at most
\* MaxLen characters has fewer than MaxLen fractional digits
Scale == 10 ^ MaxLen

(***************************************************************************)
(* Text                                                                    *)
(***************************************************************************)
Digits == {"0", "1", "2", "3", "4", "5", "6", "7", "8", "9"}

DigitVal(c) ==
    CASE c = "0" -> 0 [] c = "1" -> 1 [] c = "2" -> 2 [] c = "3" -> 3
      [] c = "4" -> 4 [] c = "5" -> 5 [] c = "6" -> 6 [] c = "7" -> 7
      [] c = "8" -> 8 [] c = "9" -> 9

Whitespace == {" ", "\n"}

\* str.replace(c, ''): every occurrence of c is removed
RECURSIVE Replace(_, _)
Replace(s, c) ==
    IF s = <<>> THEN <<>>
    ELSE IF Head(s) = c THEN Replace(Tail(s), c)
         ELSE <<Head(s)>> \o Replace(Tail(s), c)

\* str.isdigit(): non-empty and digits only
isdigit(s) == Len(s) > 0 /\ \A i \in 1..Len(s) : s[i] \in Digits

RECURSIVE LStrip(_)
LStrip(s) ==
    IF s # <<>> /\ Head(s) \in Whitespace THEN LStrip(Tail(s)) ELSE s

RECURSIVE RStrip(_)
RStrip(s) ==
    IF s # <<>> /\ s[Len(s)] \in Whitespace
    THEN RStrip(SubSeq(s, 1, Len(s) - 1)) ELSE s

\* str.strip()
strip(s) == RStrip(LStrip(s))

\* str.endswith(c) for a one-character suffix
endswith(s, c) == Len(s) > 0 /\ s[Len(s)] = c

\* sub in s
Contains(s, sub) ==
    \E i \in 0..(Len(s) - Len(sub)) : SubSeq(s, i + 1, i + Len(sub)) = sub

\* str.split(): the maximal runs of non-whitespace characters
RECURSIVE split(_)
split(s) ==
    LET t == LStrip(s) IN
    IF t = <<>> THEN <<>>
    ELSE LET n == IF \E i \in 1..Len(t) : t[i] \in Whitespace
                  THEN (CHOOSE i \in 1..Len(t) :
                            /\ t[i] \in Whitespace
                            /\ \A j \in 1..(i - 1) : t[j] \notin Whitespace) - 1
                  ELSE Len(t)
         IN <<SubSeq(t, 1, n)>> \o split(SubSeq(t, n + 1, Len(t)))

RECURSIVE DigitsValue(_)
DigitsValue(s) ==
    IF s = <<>> THEN 0
    ELSE 10 * DigitsValue(SubSeq(s, 1, Len(s) - 1)) + DigitVal(s[Len(s)])

AllDigits(s) == \A i \in 1..Len(s) : s[i] \in Digits

\* float(s) on text made of digits, ".", "-", "%", letters and blanks: the
\* decimal literals [-]d+[.d*] and [-].d+ convert (float_ok), everything else
\* raises ValueError.  (Exponents, "inf", "nan", "_" and "+" are not in the
\* texts of this model, and no text has more than MaxLen fractional digits.)
FloatBody(s) == IF s # <<>> /\ Head(s) = "-" THEN Tail(s) ELSE s

FloatDot(s) ==
    LET b == FloatBody(s) IN
    IF \E i \in 1..Len(b) : b[i] = "."
    THEN CHOOSE i \in 1..Len(b) : b[i] = "." /\ \A j \in 1..(i - 1) : b[j] # "."
    ELSE Len(b) + 1

FloatInt(s) == SubSeq(FloatBody(s), 1, FloatDot(s) - 1)

FloatFrac(s) == SubSeq(FloatBody(s), FloatDot(s) + 1, Len(FloatBody(s)))

float_ok(s) ==
    /\ AllDigits(FloatInt(s))
    /\ AllDigits(FloatFrac(s))
    /\ Len(FloatInt(s)) + Len(FloatFrac(s)) > 0

float(s) ==
    LET mag == DigitsValue(FloatInt(s)) * Scale
               + DigitsValue(FloatFrac(s)) * (10 ^ (MaxLen - Len(FloatFrac(s))))
    IN IF s # <<>> /\ Head(s) = "-" THEN 0 - mag ELSE mag

(***************************************************************************)
(* Metric collection                                                       *)
(***************************************************************************)
Metrics == <<"cpu", "memory", "disk">>

MetricNames == {"cpu", "memory", "disk"}

\* what run_command's except branch returns for a command that timed out:
\* f"Error: {e}", abbreviated to its first three words
ErrorText ==
    <<"E", "r", "r", "o", "r", ":", " ", "t", "i", "m", "e", "d", " ", "o", "u", "t">>

\* the outcome of subprocess.run: the captured stdout, or an exception
Stdout(text) == [timeout |-> FALSE, stdout |-> text]

TimedOut == [timeout |-> TRUE, stdout |-> <<>>]

run_command(o) == IF o.timeout THEN ErrorText ELSE strip(o.stdout)

\* a function's outcome: the value returned, or the exception raised
Return(v) == [raised |-> {}, ret |-> v]

Raise(e) == [raised |-> {e}, ret |-> <<>>]

\* {"value": v, "unit": "%"}; the key "error" is missing
Measured(v) == [value |-> v, unit |-> "%", error |-> {}]

\* {"value": 0, "unit": "%", "error": ...}
Unavailable == [value |-> 0, unit |-> "%", error |-> {"unavailable"}]

\* float(output) in a return statement
ReturnFloat(text) ==
    IF float_ok(text) THEN Return(Measured(float(text))) ELSE Raise("ValueError")

\* output.replace('.', '').replace('-', '').isdigit()
cpu_numeric(output) == isdigit(Replace(Replace(output, "."), "-"))

\* output.replace('.', '').isdigit()
memory_numeric(output) == isdigit(Replace(output, "."))

\* o1, o2: the outcomes of the vmstat and of the top command (the second is
\* run only when the first output is not accepted)
get_cpu(o1, o2) ==
    IF cpu_numeric(run_command(o1)) THEN ReturnFloat(run_command(o1))
    ELSE IF run_command(o2) # <<>> /\ cpu_numeric(run_command(o2))
         THEN ReturnFloat(run_command(o2))
         ELSE Return(Unavailable)

get_memory(o) ==
    IF memory_numeric(run_command(o)) THEN ReturnFloat(run_command(o))
    ELSE Return(Unavailable)

get_disk(o) ==
    LET output == run_command(o) IN
    IF endswith(output, "%") THEN ReturnFloat(SubSeq(output, 1, Len(output) - 1))
    ELSE Return(Unavailable)

Zero == <<"0">>

get_load(o) ==
    LET output == run_command(o)
        parts == split(output)
    IN IF output # <<>>
       THEN IF Len(parts) >= 3
            THEN Return([min1 |-> parts[1], min5 |-> parts[2], min15 |-> parts[3]])
            ELSE Raise("IndexError")
       ELSE Return([min1 |-> Zero, min5 |-> Zero, min15 |-> Zero])

get_uptime(o1, o2) ==
    LET output == run_command(o1) IN
    IF output = <<>> \/ Contains(output, <<"E", "r", "r", "o", "r">>)
    THEN Return([uptime |-> run_command(o2)])
    ELSE Return([uptime |-> output])

(***************************************************************************)
(* Threshold evaluation and report formatting                              *)
(***************************************************************************)
\* d.get(k, default) on a dict modelled as a function
Get(d, k, default) == IF k \in DOMAIN d THEN d[k] ELSE default

\* status.get(m, {}).get("value", 0)
ValueOf(st, m) == IF m \in DOMAIN st THEN st[m].value ELSE 0

\* the alert texts of lines 122, 124 and 126: the metric they name and the
\* limit their "(>N%)" suffix shows
CpuAlert == [metric |-> "cpu", limit |-> 80]

MemoryAlert == [metric |-> "memory", limit |-> 90]

DiskAlert == [metric |-> "disk", limit |-> 90]

\* the comparison with >= in place of >
ExceedsOrEquals(value, threshold) == value >= threshold * Scale

\* value > threshold, the threshold being a whole number of percent
Exceeds(value, threshold) == value > threshold * Scale

check_alerts(st, cfg) ==
    LET thresholds == Get(cfg, "thresholds", <<>>)
        cpu == ValueOf(st, "cpu")
        mem == ValueOf(st, "memory")
        disk == ValueOf(st, "disk")
    IN (IF Exceeds(cpu, Get(thresholds, "cpu", 80)) THEN <<CpuAlert>> ELSE <<>>)
       \o (IF Exceeds(mem, Get(thresholds, "memory", 90)) THEN <<MemoryAlert>> ELSE <<>>)
       \o (IF Exceeds(disk, Get(thresholds, "disk", 90)) THEN <<DiskAlert>> ELSE <<>>)

\* the conditional expressions of lines 138, 144 and 150
Emoji(value, low, high) ==
    IF value < low * Scale THEN "tier1"
    ELSE IF value < high * Scale THEN "tier2" ELSE "tier3"

\* the report: the marker of each metric, the load and uptime lines, and
\* either the alert section or the "status normal" line
format_message(st, al, cfg) ==
    [cpu |-> Emoji(ValueOf(st, "cpu"), 50, 80),
     memory |-> Emoji(ValueOf(st, "memory"), 70, 90),
     disk |-> Emoji(ValueOf(st, "disk"), 70, 90),
     load |-> LET load == Get(st, "load", <<>>)
              IN <<Get(load, "min1", Zero), Get(load, "min5", Zero),
                   Get(load, "min15", Zero)>>,
     uptime |-> Get(Get(st, "uptime", <<>>), "uptime", <<"N", "/", "A">>),
     alerts |-> al,
     normal |-> al = <<>>]

(***************************************************************************)
(* The numeric-validity checks on every short text                         *)
(***************************************************************************)
Alphabet == {"2", "4", "5", ".", "-", "a"}

Texts == UNION {[1..n -> Alphabet] : n \in 0..MaxLen}

NumInit ==
    /\ numIn \in Texts
    /\ numRes = [cpu |-> {}, memory |-> {}]

\* the condition of lines 58 and 62
NumCpu ==
    /\ numRes.cpu = {}
    /\ numRes' = [numRes EXCEPT !.cpu = {cpu_numeric(numIn)}]
    /\ UNCHANGED <<numIn, evIn, evRes, mainVars>>

\* the condition of line 71
NumMemory ==
    /\ numRes.memory = {}
    /\ numRes' = [numRes EXCEPT !.memory = {memory_numeric(numIn)}]
    /\ UNCHANGED <<numIn, evIn, evRes, mainVars>>

(***************************************************************************)
(* The evaluator and the formatter on every snapshot and configuration     *)
(***************************************************************************)
\* percentages around the markers' bounds and the thresholds
EvalValues == {45 * Scale, 50 * Scale, 70 * Scale, 80 * Scale, 90 * Scale,
               200 * Scale}

\* a metric as collected, or one carrying an error with a corrupted value
EvalMetrics ==
    {Measured(v) : v \in EvalValues}
    \cup {Unavailable, [Unavailable EXCEPT !.value = 200 * Scale]}

ThresholdChoices == {50, 90}

\* every "thresholds" dict: any of the three keys may be missing
ThresholdMaps ==
    UNION {[D -> ThresholdChoices] : D \in SUBSET MetricNames}

EvalInit ==
    /\ evIn \in [status : [MetricNames -> EvalMetrics],
                 config : {[thresholds |-> t] : t \in ThresholdMaps}]
    /\ evRes = [alerts |-> {}, message |-> {}]

EvalCheckAlerts ==
    /\ evRes.alerts = {}
    /\ evRes' = [evRes EXCEPT !.alerts = {check_alerts(evIn.status, evIn.config)}]
    /\ UNCHANGED <<evIn, numIn, numRes, mainVars>>

EvalFormat ==
    /\ evRes.message = {}
    /\ \E al \in evRes.alerts :
           evRes' = [evRes EXCEPT
                         !.message = {format_message(evIn.status, al, evIn.config)}]
    /\ UNCHANGED <<evIn, numIn, numRes, mainVars>>

(***************************************************************************)
(* Configuration, credentials and the notification provider                *)
(***************************************************************************)
\* the dict load_config starts from (lines 22-25)
DefaultConfig ==
    ("thresholds" :> ("cpu" :> 80 @@ "memory" :> 90 @@ "disk" :> 90))
    @@ ("check_items" :> <<"cpu", "memory", "disk", "uptime", "load">>)

\* file: the parsed config.json, {} when the file does not exist;
\* dict.update replaces whole top-level keys
load_config(file) ==
    IF file = {} THEN DefaultConfig
    ELSE LET loaded == CHOOSE f \in file : TRUE IN loaded @@ DefaultConfig

\* file: the parsed openclaw.json, {} when the file does not exist
load_openclaw_config(file) ==
    IF file = {} THEN <<>> ELSE CHOOSE f \in file : TRUE

\* app_config.get("channels", {}).get("feishu", {}).get("appId")
AppIdOf(app_config) ==
    LET feishu == Get(Get(app_config, "channels", <<>>), "feishu", <<>>)
    IN IF "appId" \in DOMAIN feishu THEN {feishu["appId"]} ELSE {}

\* file: the secret file's text, {} when the file does not exist
load_secret(file) == {strip(t) : t \in file}

\* Python's truth value of an optional text: None and "" are false
Truthy(opt) == \E v \in opt : v # <<>>

\* get_tenant_access_token's outcome for a provider response: "error" is a
\* request that fails outright, "not_json" a body resp.json() cannot parse
get_tenant_access_token(resp) ==
    IF resp.kind = "error" THEN Raise("RequestException")
    ELSE IF resp.kind = "not_json" THEN Raise("JSONDecodeError")
    ELSE Return(IF resp.code = 0 THEN resp.tenant_access_token ELSE {})

\* send_to_feishu's outcome for a provider response
send_to_feishu(resp) ==
    IF resp.kind = "error" THEN Raise("RequestException")
    ELSE IF resp.kind = "not_json" THEN Raise("JSONDecodeError")
    ELSE Return(resp.code = 0)

(***************************************************************************)
(* The environment of one run of main()                                    *)
(***************************************************************************)
Text95 == <<"9", "5", "\n">>

Text4p5 == <<"4", ".", "5", "\n">>

Text1p2p3 == <<"1", ".", "2", ".", "3", "\n">>

ConfigFiles ==
    {{}, {<<>>}, {"thresholds" :> ("cpu" :> 50)},
     {"thresholds" :> ("cpu" :> 90 @@ "memory" :> 50 @@ "disk" :> 40)}}

CpuOutcomes == {Stdout(Text95), Stdout(Text4p5), Stdout(<<>>), Stdout(Text1p2p3),
                TimedOut}

MemoryOutcomes == {Stdout(Text95), Stdout(Text4p5), Stdout(<<"-", "n", "a", "n", "\n">>),
                   Stdout(Text1p2p3), TimedOut}

DiskOutcomes == {Stdout(<<"9", "5", "%", "\n">>), Stdout(<<"4", "2", "%", "\n">>),
                 Stdout(<<"a", "b", "c", "%", "\n">>), Stdout(<<>>), TimedOut}

LoadOutcomes == {Stdout(<<"1", ".", "5", " ", "1", ".", "2", " ", "0", ".", "9", "\n">>),
                 Stdout(<<"1", ".", "5", " ", "1", ".", "2", "\n">>),
                 Stdout(<<>>), TimedOut}

UptimeOutcomes == {Stdout(<<"u", "p", " ", "2", " ", "d", "a", "y", "s", "\n">>),
                   Stdout(<<>>), TimedOut}

OpenclawFiles ==
    {{}, {<<>>}, {"channels" :> ("feishu" :> <<>>)},
     {"channels" :> ("feishu" :> ("appId" :> <<"c", "l", "i">>))}}

SecretFiles == {{}, {<<"\n">>}, {<<"s", "3", "\n">>}}

Minutes == 0..59

Json(code, tok) == [kind |-> "json", code |-> code, tenant_access_token |-> tok]

Failure(kind) == [kind |-> kind, code |-> 0, tenant_access_token |-> {}]

TokenResponses ==
    {Json(0, {<<"t", "1">>}), Json(0, {<<"t", "2">>}), Json(0, {}),
     Json(10003, {}), Failure("error"), Failure("not_json")}

SendResponses ==
    {Json(0, {}), Json(230001, {}), Failure("error"), Failure("not_json")}

(***************************************************************************)
(* One run of main()                                                       *)
(***************************************************************************)
Line(kind) == [kind |-> kind]

MainInit ==
    /\ pc = "start"
    /\ exc = {}
    /\ config = <<>>
    /\ status = <<>>
    /\ alerts = <<>>
    /\ message = {}
    /\ printed = <<>>
    /\ app_id = {}
    /\ app_secret = {}
    /\ minute = {}
    /\ calls = <<>>
    /\ token = {}

otherVars == <<numIn, numRes, evIn, evRes>>

\* a collector's outcome stored under its key of the snapshot, or the
\* exception it raised leaving get_all_status and main
Collect(key, r, next) ==
    /\ IF r.raised = {}
       THEN /\ status' = (key :> r.ret) @@ status
            /\ pc' = next
            /\ exc' = exc
       ELSE /\ status' = status
            /\ pc' = "raised"
            /\ exc' = r.raised
    /\ UNCHANGED <<config, alerts, message, printed, app_id, app_secret, minute,
                   calls, token, otherVars>>

\* lines 205-210
LoadConfig ==
    /\ pc = "start"
    /\ \E file \in ConfigFiles : config' = load_config(file)
    /\ printed' = Append(printed, Line("banner"))
    /\ pc' = "get_cpu"
    /\ UNCHANGED <<exc, status, alerts, message, app_id, app_secret, minute,
                   calls, token, otherVars>>

GetCpu ==
    /\ pc = "get_cpu"
    /\ \E o1 \in CpuOutcomes, o2 \in CpuOutcomes :
           Collect("cpu", get_cpu(o1, o2), "get_memory")

GetMemory ==
    /\ pc = "get_memory"
    /\ \E o \in MemoryOutcomes : Collect("memory", get_memory(o), "get_disk")

GetDisk ==
    /\ pc = "get_disk"
    /\ \E o \in DiskOutcomes : Collect("disk", get_disk(o), "get_load")

GetLoad ==
    /\ pc = "get_load"
    /\ \E o \in LoadOutcomes : Collect("load", get_load(o), "get_uptime")

GetUptime ==
    /\ pc = "get_uptime"
    /\ \E o1 \in UptimeOutcomes, o2 \in UptimeOutcomes :
           Collect("uptime", get_uptime(o1, o2), "check_alerts")

\* line 214
CheckAlerts ==
    /\ pc = "check_alerts"
    /\ alerts' = check_alerts(status, config)
    /\ pc' = "format_message"
    /\ UNCHANGED <<exc, config, status, message, printed, app_id, app_secret,
                   minute, calls, token, otherVars>>

\* lines 217-218
FormatAndPrint ==
    /\ pc = "format_message"
    /\ message' = {format_message(status, alerts, config)}
    /\ printed' = Append(printed, Line("report"))
    /\ pc' = "load_credentials"
    /\ UNCHANGED <<exc, config, status, alerts, app_id, app_secret, minute,
                   calls, token, otherVars>>

\* lines 221-223
LoadCredentials ==
    /\ pc = "load_credentials"
    /\ \E file \in OpenclawFiles : app_id' = AppIdOf(load_openclaw_config(file))
    /\ \E file \in SecretFiles : app_secret' = load_secret(file)
    /\ pc' = "decide"
    /\ UNCHANGED <<exc, config, status, alerts, message, printed, minute,
                   calls, token, otherVars>>

\* the send decision with minute <= 5 in place of minute < 5
ShouldSendAtOrBefore5(al, m) == Len(al) > 0 \/ m <= 5

\* lines 226-227: the send decision
should_send(al, m) == Len(al) > 0 \/ m < 5

\* line 235 with "and" in place of "or"
NotConfiguredBoth(id, secret) == ~Truthy(id) /\ ~Truthy(secret)

\* line 235: not app_id or not app_secret
NotConfigured(id, secret) == ~Truthy(id) \/ ~Truthy(secret)

\* lines 226-229 and 235-236: the send decision and the branch taken
Decide ==
    /\ pc = "decide"
    /\ \E m \in Minutes :
           /\ minute' = {m}
           /\ IF Truthy(app_id) /\ Truthy(app_secret) /\ should_send(alerts, m)
              THEN pc' = "get_token" /\ printed' = printed
              ELSE IF NotConfigured(app_id, app_secret)
                   THEN /\ pc' = "done"
                        /\ printed' = Append(printed, Line("not_configured"))
                   ELSE pc' = "done" /\ printed' = printed
    /\ UNCHANGED <<exc, config, status, alerts, message, app_id, app_secret,
                   calls, token, otherVars>>

\* line 230 and the left operand of line 231's condition
TokenExchange ==
    /\ pc = "get_token"
    /\ calls' = Append(calls, [api |-> "token", auth |-> app_secret])
    /\ \E resp \in TokenResponses :
           LET r == get_tenant_access_token(resp) IN
           IF r.raised # {}
           THEN pc' = "raised" /\ exc' = r.raised /\ token' = token
                /\ printed' = printed
           ELSE /\ token' = r.ret
                /\ exc' = exc
                /\ IF Truthy(r.ret)
                   THEN pc' = "send" /\ printed' = printed
                   ELSE pc' = "done" /\ printed' = Append(printed, Line("failed"))
    /\ UNCHANGED <<config, status, alerts, message, app_id, app_secret, minute,
                   otherVars>>

\* the right operand of line 231's condition and lines 232-234
Send ==
    /\ pc = "send"
    /\ calls' = Append(calls, [api |-> "send", auth |-> token])
    /\ \E resp \in SendResponses :
           LET r == send_to_feishu(resp) IN
           IF r.raised # {}
           THEN pc' = "raised" /\ exc' = r.raised /\ printed' = printed
           ELSE /\ pc' = "done"
                /\ exc' = exc
                /\ printed' = Append(printed, Line(IF r.ret THEN "sent" ELSE "failed"))
    /\ UNCHANGED <<config, status, alerts, message, app_id, app_secret, minute,
                   token, otherVars>>

(***************************************************************************)
(* Specifications                                                          *)
(***************************************************************************)
\* values of the variables a specification does not use
NumIdle == numIn = <<>> /\ numRes = [cpu |-> {}, memory |-> {}]

EvalIdle ==
    /\ evIn = [status |-> <<>>, config |-> <<>>]
    /\ evRes = [alerts |-> {}, message |-> {}]

Init == MainInit /\ NumIdle /\ EvalIdle

Next ==
    \/ LoadConfig \/ GetCpu \/ GetMemory \/ GetDisk \/ GetLoad \/ GetUptime
    \/ CheckAlerts \/ FormatAndPrint \/ LoadCredentials \/ Decide
    \/ TokenExchange \/ Send

\* one run of main()
Spec == Init /\ [][Next]_vars

InitNum == MainInit /\ NumInit /\ EvalIdle

NextNum == NumCpu \/ NumMemory

\* the numeric-validity checks of get_cpu and get_memory on every text
SpecNum == InitNum /\ [][NextNum]_vars

InitEval == MainInit /\ NumIdle /\ EvalInit

NextEval == EvalCheckAlerts \/ EvalFormat

\* check_alerts and format_message on every snapshot and configuration
SpecEval == InitEval /\ [][NextEval]_vars

(***************************************************************************)
(* Properties                                                              *)
(***************************************************************************)
\* a credential that is there: loaded and not empty
Present(opt) == opt # {} /\ opt # {<<>>}

CallsTo(api) == {i \in 1..Len(calls) : calls[i].api = api}

Printed(kind) == \E i \in 1..Len(printed) : printed[i].kind = kind

LastPrinted == printed[Len(printed)].kind

\* the send decision has been taken and the token exchange, if any, was made
Decided == minute # {} /\ pc \in {"send", "done", "raised"}

\* C1: in a run that has both credentials, the token exchange is attempted
\* exactly when the alert list is non-empty or the minute read is below 5.
C1_DeliveryAttemptedIffAlertsOrEarlyMinute ==
    (Decided /\ Present(app_id) /\ Present(app_secret))
        => (CallsTo("token") # {}
               <=> (Len(alerts) > 0 \/ \E m \in minute : m < 5))

\* a run with credentials and an alert attempted delivery late in the hour
C1_Witness ==
    /\ Decided /\ Present(app_id) /\ Present(app_secret)
    /\ Len(alerts) > 0 /\ minute = {59}
    /\ CallsTo("token") # {}

\* C3: in a run that lacks the application id or the secret, no HTTP call is
\* made, the report has been printed and the last line printed is the
\* "not configured" one, whatever the alerts and the minute.
C3_NotConfiguredSkipsDelivery ==
    (minute # {} /\ (~Present(app_id) \/ ~Present(app_secret)))
        => /\ calls = <<>>
           /\ pc = "done"
           /\ Printed("report")
           /\ LastPrinted = "not_configured"

\* an application id without a secret, an alert pending, at minute 0
C3_Witness ==
    /\ pc = "done" /\ Present(app_id) /\ ~Present(app_secret)
    /\ Len(alerts) > 0 /\ minute = {0}
    /\ LastPrinted = "not_configured"

\* the threshold a configuration sets for a metric: the one of its
\* "thresholds" dict, else load_config's default
ConfiguredThreshold(cfg, m) ==
    IF m \in DOMAIN cfg.thresholds THEN cfg.thresholds[m]
    ELSE DefaultConfig["thresholds"][m]

Rank(m) == CHOOSE i \in 1..Len(Metrics) : Metrics[i] = m

\* C4: check_alerts returns exactly one alert for each metric whose value is
\* strictly above its configured threshold, none for the others, in the
\* order cpu, memory, disk.
C4_AlertsExactAndOrdered ==
    \A al \in evRes.alerts :
        /\ \A m \in MetricNames :
               Cardinality({i \in 1..Len(al) : al[i].metric = m})
                   = IF evIn.status[m].value
                           > ConfiguredThreshold(evIn.config, m) * Scale
                     THEN 1 ELSE 0
        /\ \A i \in 1..Len(al) : \A j \in 1..Len(al) :
               i < j => Rank(al[i].metric) < Rank(al[j].metric)

\* cpu and disk alert, memory sits exactly on its threshold and does not
C4_Witness ==
    /\ evRes.alerts = {<<CpuAlert, DiskAlert>>}
    /\ evIn.status["memory"].value = 90 * Scale
    /\ ConfiguredThreshold(evIn.config, "memory") = 90

\* C2: a metric that carries an error never produces an alert, whatever
\* value it holds.
C2_ErrorMetricNeverAlerts ==
    \A al \in evRes.alerts : \A m \in MetricNames :
        evIn.status[m].error # {} => \A i \in 1..Len(al) : al[i].metric # m

\* C5: the threshold an alert shows is the configured threshold its metric
\* was compared against.
C5_AlertShowsConfiguredThreshold ==
    \A al \in evRes.alerts : \A i \in 1..Len(al) :
        al[i].limit = ConfiguredThreshold(evIn.config, al[i].metric)

\* the marker the report is to show for a value
TierFor(m, value, threshold) ==
    IF value < (IF m = "cpu" THEN 50 ELSE 70) * Scale THEN "tier1"
    ELSE IF value < threshold * Scale THEN "tier2" ELSE "tier3"

\* C6: format_message marks each metric tier1 below 50 (cpu) or 70 (memory,
\* disk), else tier2 below the metric's configured threshold, else tier3.
C6_MarkersFollowConfiguredThreshold ==
    \A msg \in evRes.message : \A m \in MetricNames :
        msg[m] = TierFor(m, evIn.status[m].value,
                         ConfiguredThreshold(evIn.config, m))

\* at most one leading "-" and at most one "." removed
RemoveFirst(s, c) ==
    IF \E i \in 1..Len(s) : s[i] = c
    THEN LET k == CHOOSE i \in 1..Len(s) : s[i] = c /\ \A j \in 1..(i - 1) : s[j] # c
         IN SubSeq(s, 1, k - 1) \o SubSeq(s, k + 1, Len(s))
    ELSE s

SignedDecimal(s) ==
    LET unsigned == IF s # <<>> /\ Head(s) = "-" THEN Tail(s) ELSE s
        rest == RemoveFirst(unsigned, ".")
    IN Len(rest) > 0 /\ \A i \in 1..Len(rest) : rest[i] \in Digits

\* C7: the numeric-validity checks of get_cpu and get_memory accept a text
\* only if, one leading "-" and one "." at most removed, digits remain.
C7_NumericCheckAcceptsOnlySignedDecimals ==
    /\ \A accepted \in numRes.cpu : accepted => SignedDecimal(numIn)
    /\ \A accepted \in numRes.memory : accepted => SignedDecimal(numIn)

SnapshotKeys == {"cpu", "memory", "disk", "load", "uptime"}

\* C8: get_all_status returns a complete snapshot for every command output:
\* no collector raises, a metric is a parsed value or 0 with an error, and
\* the load is three numbers, "0" each on failure.
C8_CollectionNeverFails ==
    /\ pc = "raised" => DOMAIN status = SnapshotKeys
    /\ \A m \in MetricNames \cap DOMAIN status :
           status[m].error # {} => status[m].value = 0
    /\ "load" \in DOMAIN status =>
           /\ float_ok(status["load"].min1)
           /\ float_ok(status["load"].min5)
           /\ float_ok(status["load"].min15)

\* C9: whatever the token exchange and the message send answer, the report
\* was printed before, no exception leaves main(), and the run ends having
\* printed the delivery's outcome.
C9_DeliveryFailureIsContained ==
    calls # <<>> =>
        /\ Printed("report")
        /\ pc # "raised" /\ exc = {}
        /\ pc = "done" => LastPrinted \in {"sent", "failed"}

\* C10: at most one token exchange and one message send per run; the send
\* follows a token exchange that returned a token and carries that token;
\* a run whose token exchange failed makes no send and ends having printed
\* the delivery failure.
C10_SingleAttemptInOrder ==
    /\ Cardinality(CallsTo("token")) <= 1
    /\ Cardinality(CallsTo("send")) <= 1
    /\ \A i \in CallsTo("send") :
           /\ \E j \in CallsTo("token") : j < i
           /\ Truthy(token) /\ calls[i].auth = token
    /\ (pc \in {"done", "raised"} /\ CallsTo("token") # {} /\ CallsTo("send") = {})
           => (pc = "done" /\ LastPrinted = "failed")

====
